---- MODULE Spec2Model ----
(***************************************************************************)
(* State-machine model of the Utopia API client (src/index.js): the        *)
(* constructor with its token check, the request dispatcher sendRequest,   *)
(* the activation negotiation of the notification socket, the subscription *)
(* methods on / once / removeListener and the wrapped operations.          *)
(*                                                                         *)
(* JavaScript values are tagged records; a JavaScript string is a sequence *)
(* of one-character strings so that toLowerCase, toUpperCase, the token    *)
(* pattern and Number.prototype.toString are computed, not assumed.        *)
(***************************************************************************)
EXTENDS Integers, Sequences, FiniteSets, TLC

\* ------------------------------------------------------------------ bounds
MaxTokenLen == 2
MaxRequests == 2
MaxListeners == 2

\* ------------------------------------------------------- JavaScript values
Undef == [t |-> "undef", n |-> 0, s |-> <<>>, b |-> FALSE]
Str(chars) == [t |-> "str", n |-> 0, s |-> chars, b |-> FALSE]
Num(k) == [t |-> "num", n |-> k, s |-> <<>>, b |-> FALSE]
Bool(v) == [t |-> "bool", n |-> 0, s |-> <<>>, b |-> v]

\* ToBoolean: undefined, "", 0 and false are falsy
Truthy(v) ==
    CASE v.t = "undef" -> FALSE
      [] v.t = "str" -> v.s # <<>>
      [] v.t = "num" -> v.n # 0
      [] v.t = "bool" -> v.b

\* a || d
OrDefault(v, d) == IF Truthy(v) THEN v ELSE d

LowerLetters == <<"a","b","c","d","e","f","g","h","i","j","k","l","m",
                  "n","o","p","q","r","s","t","u","v","w","x","y","z">>
UpperLetters == <<"A","B","C","D","E","F","G","H","I","J","K","L","M",
                  "N","O","P","Q","R","S","T","U","V","W","X","Y","Z">>
DigitChars == <<"0","1","2","3","4","5","6","7","8","9">>

ToLowerChar(c) ==
    IF \E i \in 1..26 : UpperLetters[i] = c
    THEN LowerLetters[CHOOSE i \in 1..26 : UpperLetters[i] = c]
    ELSE c

ToUpperChar(c) ==
    IF \E i \in 1..26 : LowerLetters[i] = c
    THEN UpperLetters[CHOOSE i \in 1..26 : LowerLetters[i] = c]
    ELSE c

\* String.prototype.toLowerCase / toUpperCase
toLowerCase(chars) == [i \in 1..Len(chars) |-> ToLowerChar(chars[i])]
toUpperCase(chars) == [i \in 1..Len(chars) |-> ToUpperChar(chars[i])]

\* the character class [a-f0-9]
HexLowerChars == {"a","b","c","d","e","f"} \cup {DigitChars[i] : i \in 1..10}

\* chars.match(/^[a-f0-9]+$/) finds a match
MatchesHex(chars) ==
    /\ Len(chars) >= 1
    /\ \A i \in 1..Len(chars) : chars[i] \in HexLowerChars

\* Number.prototype.toString for a non-negative integer
RECURSIVE NumToChars(_)
NumToChars(k) ==
    IF k < 10 THEN <<DigitChars[k + 1]>>
    ELSE NumToChars(k \div 10) \o <<DigitChars[(k % 10) + 1]>>

\* what a template literal `${v}` or v.toString() yields for a string or number
ToStringJS(v) ==
    CASE v.t = "str" -> v.s
      [] v.t = "num" -> NumToChars(v.n)
      [] v.t = "bool" -> IF v.b THEN <<"t","r","u","e">> ELSE <<"f","a","l","s","e">>
      [] v.t = "undef" -> <<"u","n","d","e","f","i","n","e","d">>

\* ------------------------------------------------------- literals of the code
NoToken == <<"n","o","_","t","o","k","e","n">>
DefaultHost == <<"1","2","7",".","0",".","0",".","1">>
DefaultApiPort == <<"2","0","0","0","0">>
DefaultWsPortChars == <<"2","0","0","0","1">>
DefaultWsPortNum == 20001
TokenNotValid == "token is not valid"
NotOk == "statusCode is not 200"

\* the keys of this.listenedEvents
ListenedEvents == {"newOutgoingChannelMessage", "newChannelMessage",
                   "newOutgoingInstantMessage", "newInstantMessage", "message",
                   "channelJoinChanged", "newPaymentTransfer", "newEmail", "any"}

\* the event names a caller may pass to on / once / removeListener
EventNames == ListenedEvents \cup {"outgoingMessage", "incomingMessage"}

\* ------------------------------------------------------------------ state
VARIABLES
    pc,                   \* "new" before `new Utopia(...)`, then "ready" or "threw"
    thrown,               \* message of the Error the constructor threw, "" if none
    args,                 \* the arguments the constructor was called with
    token,                \* this.token
    websocketenabled,     \* this.websocketenabled
    apiHost,              \* this.apiHost
    apiPort,              \* this.apiPort
    wsPort,               \* this.wsPort
    webSocketUnavailable, \* this.webSocketUnavailable
    sockets,              \* the sockets created by `new ws(url)`, in creation order
    requests,             \* one record per sendRequest call, in call order
    wire,                 \* ids of the requests handed to request.post, in that order
    serverLog,            \* ids of the requests in the order the server received them
    neg,                  \* progress of the activation negotiation
    listeners,            \* this.listener: per event name, the registered callbacks
    lastCall,             \* what the caller's latest method call gave back
    lastFrame,            \* the latest frame the "message" handler was given
    lastDispatch,         \* the callback invocations that frame caused, in order
    uncaught              \* the exceptions that left an event handler uncaught

vars == <<pc, thrown, args, token, websocketenabled, apiHost, apiPort, wsPort,
          webSocketUnavailable, sockets, requests, wire, serverLog, neg,
          listeners, lastCall, lastFrame, lastDispatch, uncaught>>

\* ----------------------------------------------------------------- inputs
TokenAlphabet == {"a", "F", "7", "g"}

RECURSIVE StringsUpTo(_)
StringsUpTo(k) ==
    IF k = 0 THEN {<<>>}
    ELSE LET shorter == StringsUpTo(k - 1)
         IN shorter \cup {Append(w, c) : w \in shorter, c \in TokenAlphabet}

TokenInputs == {Undef} \cup {Str(w) : w \in StringsUpTo(MaxTokenLen)}
FlagInputs == {Undef, Bool(FALSE), Bool(TRUE)}
WsPortInputs == {Undef, Str(<<"2","0","0","0","5">>), Num(20007)}

NoArgs == [token |-> Undef, websocketenabled |-> Undef, apiHost |-> Undef,
           apiPort |-> Undef, wsPort |-> Undef]

NoCall == [op |-> "", kind |-> "none", req |-> 0, error |-> ""]

NoParams == [k \in {} |-> Undef]

\* an inbound text frame: whether JSON.parse accepts it, whether the parsed
\* object has a type, the type, and the rest of the object
Frame(json, hasType, type, payload) ==
    [json |-> json, hasType |-> hasType, type |-> type, payload |-> payload]
NoFrame == Frame(FALSE, FALSE, <<>>, "")

\* a method-name argument: absent, or a string
MUndef == [t |-> "undef", name |-> ""]
M(name) == [t |-> "str", name |-> name]
MethodOrDefault(m) == IF m.t = "str" /\ m.name # "" THEN m.name ELSE "getSystemInfo"

\* a params argument: absent, or an object
PUndef == [given |-> FALSE, map |-> NoParams]
P(map) == [given |-> TRUE, map |-> map]
ParamsOrDefault(p) == IF p.given THEN p.map ELSE NoParams

\* the error_ argument of the transport callback: null or an Error
NoError == "null"
TransportErrors == {"ECONNREFUSED"}
StatusCodes == {200, 500}

\* a response body is an object whose result field may be missing
Body(result) == [result |-> result]
NoBody == Body(Undef)
ActivePort == 20003
QueryBodies == {Body(Num(0)), Body(Num(ActivePort)), NoBody}
OtherBodies == {Body(Bool(TRUE))}

\* ------------------------------------------------------------ sendRequest
\* the envelope `__` and the url of request.post
Envelope(method, params) ==
    [token |-> token, method |-> MethodOrDefault(method),
     params |-> ParamsOrDefault(params)]

ApiUrl == [host |-> ToStringJS(apiHost), port |-> ToStringJS(apiPort)]

\* the record of one sendRequest call: its POST and its promise
NewRequest(origin, op, method, params, returned) ==
    [origin |-> origin, op |-> op, url |-> ApiUrl,
     body |-> Envelope(method, params),
     state |-> "sent", error_ |-> NoError, statusCode |-> 0, received |-> NoBody,
     promise |-> "pending", reason |-> "", data |-> NoBody,
     returned |-> returned]

\* variant of PostRequest that posts the request a second time
PostRequestTwice(w, id) == Append(Append(w, id), id)

\* variant of PostRequest that puts the request ahead of the earlier ones
PostRequestAhead(w, id) == <<id>> \o w

\* request.post(...) hands the request to the transport
PostRequest(w, id) == Append(w, id)

\* resolve / reject of a promise: only a pending promise settles
Settle(r, how, reason, data) ==
    IF r.promise = "pending"
    THEN [r EXCEPT !.promise = how, !.reason = reason, !.data = data]
    ELSE r

\* variant of Callback that resolves when either test passes
CallbackEitherTest(r, error_, statusCode, body) ==
    LET seen == [r EXCEPT !.error_ = error_, !.statusCode = statusCode,
                          !.received = body]
    IN IF error_ = NoError \/ statusCode = 200
       THEN Settle(seen, "resolved", "", body)
       ELSE Settle(seen, "rejected",
                   IF error_ # NoError THEN error_ ELSE NotOk, NoBody)

\* the callback given to request.post
Callback(r, error_, statusCode, body) ==
    LET seen == [r EXCEPT !.error_ = error_, !.statusCode = statusCode,
                          !.received = body]
    IN IF error_ = NoError /\ statusCode = 200
       THEN Settle(seen, "resolved", "", body)
       ELSE Settle(seen, "rejected",
                   IF error_ # NoError THEN error_ ELSE NotOk, NoBody)

\* the url of the notification socket
WsUrl(port) == [host |-> ToStringJS(apiHost), port |-> ToStringJS(port),
                token |-> ToStringJS(token)]

\* new ws(url) followed by webSocket.on("message", ...)
NewSocket(port) == [url |-> WsUrl(port), state |-> "connecting", onMessage |-> TRUE]

\* ------------------------------------------------------------ constructor
Init ==
    /\ pc = "new"
    /\ thrown = ""
    /\ args = NoArgs
    /\ token = Undef
    /\ websocketenabled = Undef
    /\ apiHost = Undef
    /\ apiPort = Undef
    /\ wsPort = Undef
    /\ webSocketUnavailable = Undef
    /\ sockets = <<>>
    /\ requests = <<>>
    /\ wire = <<>>
    /\ serverLog = <<>>
    /\ neg = "none"
    /\ listeners = [e \in {} |-> <<>>]
    /\ lastCall = NoCall
    /\ lastFrame = NoFrame
    /\ lastDispatch = <<>>
    /\ uncaught = {}

\* variant of TokenCheck without the pattern test
TokenCheckNoPattern(tok) ==
    LET t1 == OrDefault(tok, Str(NoToken))
    IN IF t1.s = NoToken THEN TokenNotValid ELSE ""

\* the token check of the constructor: the message it throws, "" if it passes
TokenCheck(tok) ==
    LET t1 == OrDefault(tok, Str(NoToken))
    IN IF t1.s = NoToken THEN TokenNotValid
       ELSE IF ~MatchesHex(toLowerCase(t1.s)) THEN TokenNotValid
       ELSE ""

\* variant of StoredToken that keeps the token as given
StoredTokenAsGiven(tok) == tok

\* this.token = token.toUpperCase()
StoredToken(tok) == Str(toUpperCase(tok.s))

\* variant of NegotiationRequested that ignores the flag
NegotiationAlways(flag) == TRUE

\* if (websocketenabled) { this.getWebSocketState()... }
NegotiationRequested(flag) == Truthy(flag)

Construct(tok, flag, host, port, wsp) ==
    /\ pc = "new"
    /\ args' = [token |-> tok, websocketenabled |-> flag, apiHost |-> host,
                apiPort |-> port, wsPort |-> wsp]
    /\ listeners' = [e \in EventNames |-> <<>>]
    /\ IF TokenCheck(tok) # ""
       THEN /\ pc' = "threw"
            /\ thrown' = TokenCheck(tok)
            /\ token' = OrDefault(tok, Str(NoToken))
            /\ UNCHANGED <<websocketenabled, apiHost, apiPort, wsPort,
                           webSocketUnavailable, requests, wire, neg>>
       ELSE /\ pc' = "ready"
            /\ thrown' = ""
            /\ token' = StoredToken(tok)
            /\ websocketenabled' = OrDefault(flag, Bool(FALSE))
            /\ apiHost' = OrDefault(host, Str(DefaultHost))
            /\ apiPort' = OrDefault(port, Str(DefaultApiPort))
            /\ webSocketUnavailable' = Bool(TRUE)
            /\ wsPort' = Undef
            /\ IF NegotiationRequested(flag)
               THEN /\ requests' = Append(requests,
                            NewRequest("query", "getWebSocketState",
                                       M("getWebSocketState"), PUndef, TRUE)')
                    /\ wire' = PostRequest(wire, Len(requests) + 1)
                    /\ neg' = "query"
               ELSE UNCHANGED <<requests, wire, neg>>
    /\ UNCHANGED <<sockets, serverLog, lastCall, lastFrame, lastDispatch, uncaught>>

\* --------------------------------------------------- calls made by the caller
CallerRequests == {i \in 1..Len(requests) : requests[i].origin = "caller"}

CanCall == pc = "ready" /\ Cardinality(CallerRequests) < MaxRequests

\* a wrapper that ends in `return this.sendRequest(method, params)`
ReturnSendRequest(op, method, params) ==
    /\ requests' = Append(requests, NewRequest("caller", op, method, params, TRUE))
    /\ wire' = PostRequest(wire, Len(requests) + 1)
    /\ lastCall' = [op |-> op, kind |-> "promise", req |-> Len(requests) + 1,
                    error |-> ""]

\* a wrapper that calls this.sendRequest(method, params) and returns nothing
DropSendRequest(op, method, params) ==
    /\ requests' = Append(requests, NewRequest("caller", op, method, params, FALSE))
    /\ wire' = PostRequest(wire, Len(requests) + 1)
    /\ lastCall' = [op |-> op, kind |-> "undefined", req |-> 0, error |-> ""]

\* a wrapper that throws before it reaches sendRequest
ThrowBeforeSend(op, error) ==
    /\ lastCall' = [op |-> op, kind |-> "throw", req |-> 0, error |-> error]
    /\ UNCHANGED <<requests, wire>>

UnchangedByCall ==
    UNCHANGED <<pc, thrown, args, token, websocketenabled, apiHost, apiPort,
                wsPort, webSocketUnavailable, sockets, serverLog, neg, listeners,
                lastFrame, lastDispatch, uncaught>>

StringArgs == {Undef, Str(<<"A","B","C">>)}

\* sendRequest(method, params) called directly
sendRequest(method, params) ==
    /\ CanCall
    /\ ReturnSendRequest("sendRequest", method, params)
    /\ UnchangedByCall

getSystemInfo ==
    /\ CanCall
    /\ ReturnSendRequest("getSystemInfo", MUndef, PUndef)
    /\ UnchangedByCall

getWebSocketState ==
    /\ CanCall
    /\ ReturnSendRequest("getWebSocketState", M("getWebSocketState"), PUndef)
    /\ UnchangedByCall

setWebSocketState(enabled, port) ==
    /\ CanCall
    /\ ReturnSendRequest("setWebSocketState", M("setWebSocketState"),
                         P([enabled |-> enabled, port |-> port]))
    /\ UnchangedByCall

setContactNick(pk, newNick) ==
    /\ CanCall
    /\ ReturnSendRequest("setContactNick", M("setContactNick"),
            P([contactPublicKey |-> OrDefault(pk, Str(<<>>)),
               newNick |-> OrDefault(newNick, Str(<<>>))]))
    /\ UnchangedByCall

sendInstantInvitation(to, channelId, description, comments) ==
    /\ CanCall
    /\ DropSendRequest("sendInstantInvitation", M("sendInstantInvitation"),
            P([to |-> OrDefault(to, Str(<<>>)),
               channelid |-> OrDefault(channelId, Str(<<"U","T","O","P","I","A">>)),
               description |-> OrDefault(description, Str(<<>>)),
               comments |-> OrDefault(comments, Str(<<>>))]))
    /\ UnchangedByCall

\* `password = password || ""` reads an identifier that is declared nowhere
modifyChannel(channelId) ==
    /\ CanCall
    /\ ThrowBeforeSend("modifyChannel", "ReferenceError: password is not defined")
    /\ UnchangedByCall

\* a wrapper that returns a plain object { "error": error } and sends nothing
ReturnErrorObject(op, error) ==
    /\ lastCall' = [op |-> op, kind |-> "object", req |-> 0, error |-> error]
    /\ UNCHANGED <<requests, wire>>

Empty == Str(<<>>)
TrueChars == Str(<<"t","r","u","e">>)

setLowTrafficMode(enabled) ==
    /\ CanCall
    /\ ReturnSendRequest("setLowTrafficMode", M("setLowTrafficMode"),
            P([enavled |-> OrDefault(enabled, Empty)]))
    /\ UnchangedByCall

\* variant of getContacts that sends the filter as it was given
getContactsAsGiven(filter) ==
    /\ CanCall
    /\ ReturnSendRequest("getContacts", M("getContacts"), P([filter |-> filter]))
    /\ UnchangedByCall

getContacts(filter) ==
    /\ CanCall
    /\ ReturnSendRequest("getContacts", M("getContacts"),
            P([filter |-> OrDefault(filter, Empty)]))
    /\ UnchangedByCall

getContactAvatar(pk, coder, format) ==
    /\ CanCall
    /\ ReturnSendRequest("getContactAvatar", M("getContactAvatar"),
            P([pk |-> OrDefault(pk, Empty),
               coder |-> OrDefault(coder, Str(<<"B","A","S","E","6","4">>)),
               format |-> OrDefault(format, Str(<<"P","N","G">>))]))
    /\ UnchangedByCall

sendPayment(cardId, to, amount, comment) ==
    /\ CanCall
    /\ ReturnSendRequest("sendPayment", M("sendPayment"),
            P([cardid |-> OrDefault(cardId, Empty),
               to |-> OrDefault(to, Empty),
               amount |-> OrDefault(amount, Str(<<"0">>)),
               comment |-> OrDefault(comment, Empty)]))
    /\ UnchangedByCall

enableMining(enabled) ==
    /\ CanCall
    /\ ReturnSendRequest("enableMining", M("enableMining"),
            P([enable |-> OrDefault(enabled, TrueChars)]))
    /\ UnchangedByCall

enableInterest(enabled) ==
    /\ CanCall
    /\ ReturnSendRequest("enableInterest", M("enableInterest"),
            P([enable |-> OrDefault(enabled, TrueChars)]))
    /\ UnchangedByCall

enableHistoryMining(enabled) ==
    /\ CanCall
    /\ ReturnSendRequest("enableHistoryMining", M("enableHistoryMining"),
            P([enable |-> OrDefault(enabled, TrueChars)]))
    /\ UnchangedByCall

unsModifyRecordRequest(nick, valid, isPrimary, channelId) ==
    /\ CanCall
    /\ ReturnSendRequest("unsModifyRecordRequest", M("unsCreateRecordRequest"),
            P([nick |-> OrDefault(nick, Empty),
               valid |-> OrDefault(valid, Empty),
               isPrimary |-> OrDefault(isPrimary, Empty),
               channelId |-> OrDefault(channelId, Empty)]))
    /\ UnchangedByCall

createProxyMapping(srcHost, srcPort, dstHost, dstPort, enabled) ==
    /\ CanCall
    /\ ReturnSendRequest("createProxyMapping", M("createProxyMapping"),
            P([srcHost |-> OrDefault(srcHost, Empty),
               srcPort |-> OrDefault(srcPort, Empty),
               dstHost |-> OrDefault(dstHost, Empty),
               dstPort |-> OrDefault(dstPort, Empty),
               enabled |-> OrDefault(enabled, TrueChars)]))
    /\ UnchangedByCall

\* the file system the two file helpers read: a regular file, a directory, and
\* a name that does not exist
PathFile == Str(<<"a",".","p","n","g">>)
PathDir == Str(<<"d","i","r">>)
PathNone == Str(<<"n","o",".","p","n","g">>)
existsSync(path) == path \in {PathFile, PathDir}
isFile(path) == path = PathFile
\* Buffer.from(fs.readFileSync(path)).toString("base64")
ReadBase64(path) == Str(<<"Q","Q","=","=">>)
GivenBase64 == Str(<<"Q","g","=","=">>)

\* the branches shared by sendChannelPicture and uploadFile: what is sent as
\* the image, or the error object returned; filename and base64 have had
\* their `|| ""` defaults applied
FileBranch(filename, base64) ==
    IF Truthy(filename) /\ Len(base64.s) < 1
    THEN IF existsSync(filename)
         THEN IF isFile(filename)
              THEN [error |-> "", base64 |-> ReadBase64(filename)]
              ELSE [error |-> "path is a directory", base64 |-> base64]
         ELSE [error |-> "file does not exist", base64 |-> base64]
    ELSE [error |-> "filename parameter is required", base64 |-> base64]

sendChannelPicture(channelId, imageFilename, base64Image) ==
    /\ CanCall
    /\ LET ch == OrDefault(channelId, Empty)
           b64 == OrDefault(base64Image, Empty)
           fn == OrDefault(imageFilename, Empty)
           br == FileBranch(fn, b64)
       IN IF br.error # ""
          THEN ReturnErrorObject("sendChannelPicture", br.error)
          ELSE ReturnSendRequest("sendChannelPicture", M("sendChannelPicture"),
                   P([channelid |-> ch, base64_image |-> br.base64,
                      filename_image |-> fn]))
    /\ UnchangedByCall

uploadFile(filename, base64Image) ==
    /\ CanCall
    /\ LET b64 == OrDefault(base64Image, Empty)
           fn == OrDefault(filename, Empty)
           br == FileBranch(fn, b64)
       IN IF br.error # ""
          THEN ReturnErrorObject("uploadFile", br.error)
          ELSE ReturnSendRequest("uploadFile", M("sendChannelPicture"),
                   P([base64_image |-> br.base64, filename_image |-> fn]))
    /\ UnchangedByCall

\* ------------------------------------------------- activation negotiation
\* the rest of the state a promise callback of the constructor leaves alone
UnchangedByNegotiation ==
    UNCHANGED <<pc, thrown, args, token, websocketenabled, apiHost, apiPort,
                listeners, lastCall, lastFrame, lastDispatch, uncaught>>

\* this.setWebSocketState(true, this.wsPort), called with the new wsPort
Activate(rs, port) ==
    /\ wsPort' = port
    /\ requests' = Append(rs, NewRequest("activate", "setWebSocketState",
                          M("setWebSocketState"),
                          P([enabled |-> Bool(TRUE), port |-> port]), TRUE))
    /\ wire' = PostRequest(wire, Len(rs) + 1)
    /\ neg' = "activate"
    /\ UNCHANGED <<webSocketUnavailable, sockets>>

\* webSocketUnavailable = false; webSocket = new ws(...); webSocket.on("message")
OpenSocket(rs) ==
    /\ webSocketUnavailable' = Bool(FALSE)
    /\ sockets' = Append(sockets, NewSocket(wsPort'))
    /\ neg' = "socket"
    /\ requests' = rs
    /\ UNCHANGED wire

\* variant of OnQueryResolved that connects to the caller's port
OnQueryResolvedCallerPort(rs, data) ==
    IF data.result # Num(0)
    THEN IF data.result.t = "undef"
         THEN /\ neg' = "unhandled"
              /\ requests' = rs
              /\ UNCHANGED <<wsPort, webSocketUnavailable, sockets, wire>>
         ELSE /\ wsPort' = OrDefault(args.wsPort, Str(DefaultWsPortChars))
              /\ OpenSocket(rs)
    ELSE Activate(rs, OrDefault(args.wsPort, Str(DefaultWsPortChars)))

\* getWebSocketState().then((data) => ...)
OnQueryResolved(rs, data) ==
    IF data.result # Num(0)
    THEN IF data.result.t = "undef"
         THEN \* data.result.toString() throws inside the callback: nobody catches it
              /\ neg' = "unhandled"
              /\ requests' = rs
              /\ UNCHANGED <<wsPort, webSocketUnavailable, sockets, wire>>
         ELSE /\ wsPort' = Str(ToStringJS(data.result))
              /\ OpenSocket(rs)
    ELSE Activate(rs, OrDefault(args.wsPort, Str(DefaultWsPortChars)))

\* variant of OnQueryRejected that gives up instead of activating
OnQueryRejectedGiveUp(rs) ==
    /\ webSocketUnavailable' = Bool(TRUE)
    /\ neg' = "degraded"
    /\ requests' = rs
    /\ UNCHANGED <<wsPort, sockets, wire>>

\* getWebSocketState().then(..., (error) => ...)
OnQueryRejected(rs) ==
    Activate(rs, OrDefault(args.wsPort, Num(DefaultWsPortNum)))

\* setWebSocketState(true, this.wsPort).then((data) => ...)
OnActivateResolved(rs) ==
    /\ wsPort' = wsPort
    /\ OpenSocket(rs)

\* variant of OnActivateRejected that marks the socket available
OnActivateRejectedAvailable(rs) ==
    /\ webSocketUnavailable' = Bool(FALSE)
    /\ neg' = "degraded"
    /\ requests' = rs
    /\ UNCHANGED <<wsPort, sockets, wire>>

\* setWebSocketState(true, this.wsPort).then(..., (error) => ...)
OnActivateRejected(rs) ==
    /\ webSocketUnavailable' = Bool(TRUE)
    /\ neg' = "degraded"
    /\ requests' = rs
    /\ UNCHANGED <<wsPort, sockets, wire>>

\* the promise callbacks attached to a request, run once it has settled
Continue(rs, i) ==
    CASE rs[i].origin = "caller" ->
            /\ requests' = rs
            /\ UNCHANGED <<wsPort, webSocketUnavailable, sockets, wire, neg>>
      [] rs[i].origin = "query" ->
            IF rs[i].promise = "resolved"
            THEN OnQueryResolved(rs, rs[i].data)
            ELSE OnQueryRejected(rs)
      [] rs[i].origin = "activate" ->
            IF rs[i].promise = "resolved"
            THEN OnActivateResolved(rs)
            ELSE OnActivateRejected(rs)

\* -------------------------------------------------------------- transport
BodiesFor(r) == IF r.body.method = "getWebSocketState" THEN QueryBodies ELSE OtherBodies

\* the server receives the POST of request i
Deliver(i) ==
    /\ requests[i].state = "sent"
    /\ requests' = [requests EXCEPT ![i].state = "delivered"]
    /\ serverLog' = Append(serverLog, i)
    /\ UNCHANGED <<pc, thrown, args, token, websocketenabled, apiHost, apiPort,
                   wsPort, webSocketUnavailable, sockets, wire, neg, listeners,
                   lastCall, lastFrame, lastDispatch, uncaught>>

\* the transport reports the server's response to request i (which the server
\* has received by then)
Reply(i, statusCode, body) ==
    /\ pc = "ready"
    /\ requests[i].state \in {"sent", "delivered"}
    /\ serverLog' = IF requests[i].state = "sent" THEN Append(serverLog, i)
                    ELSE serverLog
    /\ LET r == Callback([requests[i] EXCEPT !.state = "answered"],
                         NoError, statusCode, body)
       IN Continue([requests EXCEPT ![i] = r], i)
    /\ UnchangedByNegotiation

\* the transport reports an error for request i
Fail(i, error_) ==
    /\ pc = "ready"
    /\ requests[i].state \in {"sent", "delivered"}
    /\ UNCHANGED serverLog
    /\ LET r == Callback([requests[i] EXCEPT !.state = "failed"],
                         error_, 0, NoBody)
       IN Continue([requests EXCEPT ![i] = r], i)
    /\ UnchangedByNegotiation

\* ------------------------------------------------------------ subscriptions
EventInputs == {"any", "newInstantMessage", "incomingMessage", "message"}
CallbackInputs == {"cb1", "cb2", "undefined"}
IsFunction(cb) == cb # "undefined"

TotalListeners ==
    LET RECURSIVE Sum(_)
        Sum(S) == IF S = {} THEN 0
                  ELSE LET e == CHOOSE x \in S : TRUE
                       IN Len(listeners[e]) + Sum(S \ {e})
    IN Sum(DOMAIN listeners)

\* this.listenedEvents[event] is truthy
Listened(event) == event \in ListenedEvents

\* EventEmitter.removeListener: drops the most recently added instance of cb
RemoveLast(ls, cb) ==
    IF \E k \in 1..Len(ls) : ls[k].cb = cb
    THEN LET k == CHOOSE j \in 1..Len(ls) :
                      /\ ls[j].cb = cb
                      /\ \A m \in (j + 1)..Len(ls) : ls[m].cb # cb
         IN SubSeq(ls, 1, k - 1) \o SubSeq(ls, k + 1, Len(ls))
    ELSE ls

UnchangedBySubscription ==
    UNCHANGED <<pc, thrown, args, token, websocketenabled, apiHost, apiPort,
                wsPort, webSocketUnavailable, sockets, requests, wire,
                serverLog, neg, uncaught>>

\* the body shared by on, once and removeListener: `change` is what the
\* EventEmitter method does to the list of the event
Subscription(op, event, cb, change) ==
    \* lastFrame and lastDispatch describe the latest frame only until the
    \* caller's next subscription call
    /\ lastFrame' = NoFrame
    /\ lastDispatch' = <<>>
    /\ IF Truthy(webSocketUnavailable)
       THEN /\ lastCall' = [op |-> op, kind |-> "undefined", req |-> 0, error |-> ""]
            /\ UNCHANGED listeners
       ELSE IF ~Listened(event)
       THEN /\ lastCall' = [op |-> op, kind |-> "undefined", req |-> 0, error |-> ""]
            /\ UNCHANGED listeners
       ELSE IF ~IsFunction(cb)
       THEN /\ lastCall' = [op |-> op, kind |-> "throw", req |-> 0,
                            error |-> "TypeError: listener must be a function"]
            /\ UNCHANGED listeners
       ELSE /\ lastCall' = [op |-> op, kind |-> "undefined", req |-> 0, error |-> ""]
            /\ listeners' = [listeners EXCEPT ![event] = change]

on(event, cb) ==
    /\ pc = "ready"
    /\ TotalListeners < MaxListeners
    /\ Subscription("on", event, cb,
                    Append(listeners[event], [cb |-> cb, once |-> FALSE]))
    /\ UnchangedBySubscription

once(event, cb) ==
    /\ pc = "ready"
    /\ TotalListeners < MaxListeners
    /\ Subscription("once", event, cb,
                    Append(listeners[event], [cb |-> cb, once |-> TRUE]))
    /\ UnchangedBySubscription

removeListener(event, cb) ==
    /\ pc = "ready"
    /\ Subscription("removeListener", event, cb, RemoveLast(listeners[event], cb))
    /\ UnchangedBySubscription

\* --------------------------------------------------------- notifications
\* the characters of an event name
NameChars(e) ==
    CASE e = "newOutgoingChannelMessage" -> <<"n","e","w","O","u","t","g","o","i","n","g","C","h","a","n","n","e","l","M","e","s","s","a","g","e">>
      [] e = "newChannelMessage" -> <<"n","e","w","C","h","a","n","n","e","l","M","e","s","s","a","g","e">>
      [] e = "newOutgoingInstantMessage" -> <<"n","e","w","O","u","t","g","o","i","n","g","I","n","s","t","a","n","t","M","e","s","s","a","g","e">>
      [] e = "newInstantMessage" -> <<"n","e","w","I","n","s","t","a","n","t","M","e","s","s","a","g","e">>
      [] e = "message" -> <<"m","e","s","s","a","g","e">>
      [] e = "channelJoinChanged" -> <<"c","h","a","n","n","e","l","J","o","i","n","C","h","a","n","g","e","d">>
      [] e = "newPaymentTransfer" -> <<"n","e","w","P","a","y","m","e","n","t","T","r","a","n","s","f","e","r">>
      [] e = "newEmail" -> <<"n","e","w","E","m","a","i","l">>
      [] e = "any" -> <<"a","n","y">>
      [] e = "outgoingMessage" -> <<"o","u","t","g","o","i","n","g","M","e","s","s","a","g","e">>
      [] e = "incomingMessage" -> <<"i","n","c","o","m","i","n","g","M","e","s","s","a","g","e">>

ErrorChars == <<"e","r","r","o","r">>

\* chars.match(/word/i) finds a match; word is in lower case
MatchesIgnoreCase(chars, word) ==
    \E i \in 1..(Len(chars) - Len(word) + 1) :
        SubSeq(toLowerCase(chars), i, i + Len(word) - 1) = word

\* this.listener.emit(e) for an event name with a listener list: every listener
\* of the list is called, in order and with no argument, and the once-listeners
\* leave the list; st is the listener lists and the calls made so far
Emit(st, e) ==
    LET cur == st.ls[e]
    IN [ls |-> [st.ls EXCEPT ![e] = SelectSeq(cur, LAMBDA l : ~l.once)],
        log |-> st.log \o [k \in 1..Len(cur) |->
                              [event |-> e, cb |-> cur[k].cb, args |-> <<>>]]]

\* this.listener.emit(parsed.type)
EmitType(st, chars) ==
    IF \E e \in DOMAIN st.ls : NameChars(e) = chars
    THEN Emit(st, CHOOSE e \in DOMAIN st.ls : NameChars(e) = chars)
    ELSE st

\* emit(e) when the pattern matches the type
EmitIfMatches(st, chars, word, e) ==
    IF MatchesIgnoreCase(chars, word) THEN Emit(st, e) ELSE st

\* variant of OnMessage that notifies any before the category of the type
OnMessageAnyFirst(frame, ls) ==
    LET s0 == [ls |-> ls, log |-> <<>>]
    IN IF ~frame.json
       THEN \* JSON.parse(data) throws
            [ls |-> ls, log |-> <<>>, error |-> "SyntaxError"]
       ELSE IF frame.hasType /\ frame.type = ErrorChars
       THEN \* emit("error") without an "error" listener throws
            [ls |-> ls, log |-> <<>>, error |-> "ERR_UNHANDLED_ERROR"]
       ELSE LET s1 == Emit(s0, "any")
                s2 == IF frame.hasType THEN EmitType(s1, frame.type) ELSE s1
            IN IF ~frame.hasType
               THEN \* parsed.type.match on undefined throws
                    [ls |-> s2.ls, log |-> s2.log, error |-> "TypeError"]
               ELSE LET s3 == EmitIfMatches(s2, frame.type,
                                  <<"o","u","t","g","o","i","n","g">>, "outgoingMessage")
                        s4 == EmitIfMatches(s3, frame.type,
                                  <<"i","n","c","o","m","i","n","g">>, "incomingMessage")
                        s5 == EmitIfMatches(s4, frame.type,
                                  <<"m","e","s","s","a","g","e">>, "message")
                    IN [ls |-> s5.ls, log |-> s5.log, error |-> ""]

\* the "message" handler of the socket on one frame: the listener lists it
\* leaves, the calls it made, and the exception that left it ("" if none)
OnMessage(frame, ls) ==
    LET s0 == [ls |-> ls, log |-> <<>>]
    IN IF ~frame.json
       THEN \* JSON.parse(data) throws
            [ls |-> ls, log |-> <<>>, error |-> "SyntaxError"]
       ELSE IF frame.hasType /\ frame.type = ErrorChars
       THEN \* emit("error") without an "error" listener throws
            [ls |-> ls, log |-> <<>>, error |-> "ERR_UNHANDLED_ERROR"]
       ELSE LET s1 == IF frame.hasType THEN EmitType(s0, frame.type) ELSE s0
                s2 == Emit(s1, "any")
            IN IF ~frame.hasType
               THEN \* parsed.type.match on undefined throws
                    [ls |-> s2.ls, log |-> s2.log, error |-> "TypeError"]
               ELSE LET s3 == EmitIfMatches(s2, frame.type,
                                  <<"o","u","t","g","o","i","n","g">>, "outgoingMessage")
                        s4 == EmitIfMatches(s3, frame.type,
                                  <<"i","n","c","o","m","i","n","g">>, "incomingMessage")
                        s5 == EmitIfMatches(s4, frame.type,
                                  <<"m","e","s","s","a","g","e">>, "message")
                    IN [ls |-> s5.ls, log |-> s5.log, error |-> ""]

\* an exception nobody catches: recorded, and the process ends unless the
\* application has installed its own uncaughtException handler
Uncaught(error) ==
    /\ uncaught' = uncaught \cup {error}
    /\ pc' \in {"ready", "crashed"}

\* the socket is this.webSocket and is open
SocketIs(state) == sockets # <<>> /\ sockets[Len(sockets)].state = state

SetSocketState(state) == [sockets EXCEPT ![Len(sockets)].state = state]

\* variant of SocketOpen that resets the notification port on connection
SocketOpenResetsPort ==
    /\ pc = "ready"
    /\ SocketIs("connecting")
    /\ sockets' = SetSocketState("open")
    /\ wsPort' = Num(0)
    /\ UNCHANGED <<pc, thrown, args, token, websocketenabled, apiHost, apiPort,
                   webSocketUnavailable, requests, wire, serverLog, neg,
                   listeners, lastCall, lastFrame, lastDispatch, uncaught>>

\* the connection of the socket is established
SocketOpen ==
    /\ pc = "ready"
    /\ SocketIs("connecting")
    /\ sockets' = SetSocketState("open")
    /\ UNCHANGED <<pc, thrown, args, token, websocketenabled, apiHost, apiPort,
                   wsPort, webSocketUnavailable, requests, wire, serverLog, neg,
                   listeners, lastCall, lastFrame, lastDispatch, uncaught>>

\* the connection fails: the socket emits "error", for which the constructor
\* registered no listener, and closes
SocketError ==
    /\ pc = "ready"
    /\ SocketIs("connecting")
    /\ sockets' = SetSocketState("closed")
    /\ Uncaught("socket error")
    /\ UNCHANGED <<thrown, args, token, websocketenabled, apiHost, apiPort,
                   wsPort, webSocketUnavailable, requests, wire, serverLog, neg,
                   listeners, lastCall, lastFrame, lastDispatch>>

\* variant of SocketClose that opens a new socket in place of the closed one
SocketCloseReconnect ==
    /\ pc = "ready"
    /\ SocketIs("open")
    /\ sockets' = Append(SetSocketState("closed"), NewSocket(wsPort))
    /\ UNCHANGED <<pc, thrown, args, token, websocketenabled, apiHost, apiPort,
                   wsPort, webSocketUnavailable, requests, wire, serverLog, neg,
                   listeners, lastCall, lastFrame, lastDispatch, uncaught>>

\* the open socket closes: the constructor registered no "close" listener
SocketClose ==
    /\ pc = "ready"
    /\ SocketIs("open")
    /\ sockets' = SetSocketState("closed")
    /\ UNCHANGED <<pc, thrown, args, token, websocketenabled, apiHost, apiPort,
                   wsPort, webSocketUnavailable, requests, wire, serverLog, neg,
                   listeners, lastCall, lastFrame, lastDispatch, uncaught>>

\* a text frame arrives on the open socket; lastCall describes the caller's
\* latest call only until the next frame
Receive(frame) ==
    /\ pc = "ready"
    /\ SocketIs("open")
    /\ sockets[Len(sockets)].onMessage
    /\ lastCall' = NoCall
    /\ LET out == OnMessage(frame, listeners)
       IN /\ lastFrame' = frame
          /\ listeners' = out.ls
          /\ lastDispatch' = out.log
          /\ IF out.error # "" THEN Uncaught(out.error)
             ELSE UNCHANGED <<pc, uncaught>>
    /\ UNCHANGED <<thrown, args, token, websocketenabled, apiHost, apiPort,
                   wsPort, webSocketUnavailable, sockets, requests, wire,
                   serverLog, neg>>

FrameTypes == {<<"n","e","w","I","n","s","t","a","n","t","M","e","s","s","a","g","e">>,
               <<"i","n","c","o","m","i","n","g","B","u","z","z">>,
               <<"n","e","w","O","u","t","g","o","i","n","g","C","h","a","n","n","e","l","M","e","s","s","a","g","e">>,
               <<"m","e","s","s","a","g","e">>,
               ErrorChars}

\* well-formed frames, a frame that is not JSON, a JSON frame without a type
FrameInputs ==
    {Frame(TRUE, TRUE, t, "payload") : t \in FrameTypes}
    \cup {Frame(FALSE, FALSE, <<>>, ""), Frame(TRUE, FALSE, <<>>, "payload")}

\* --------------------------------------------------------- specifications
TokenAF == Str(<<"a", "F">>)
OtherHost == Str(<<"h", "o", "s", "t">>)
OtherApiPort == Num(8080)

\* the constructor on every token, under the default endpoint
WideCtorInputs == TokenInputs \X FlagInputs \X {Undef} \X {Undef} \X {Undef}

\* the constructor on one mixed-case token, with and without negotiation
PlainCtorInputs == {TokenAF} \X {Undef, Bool(TRUE)} \X {Undef} \X {Undef} \X {Undef}

\* the constructor on one token: without negotiation, and with negotiation on
\* every notification port and on another endpoint
EndpointCtorInputs ==
    ({TokenAF} \X {Undef, Bool(FALSE)} \X {Undef} \X {Undef} \X {Undef})
    \cup ({TokenAF} \X {Bool(TRUE)} \X {Undef} \X {Undef} \X WsPortInputs)
    \cup ({TokenAF} \X {Bool(TRUE)} \X {OtherHost} \X {OtherApiPort} \X {Undef})

Transport ==
    \/ \E i \in 1..Len(requests), st \in StatusCodes :
          \E b \in BodiesFor(requests[i]) : Reply(i, st, b)
    \/ \E i \in 1..Len(requests), e \in TransportErrors : Fail(i, e)

\* requests and their outcomes: a plain wrapper, the two irregular wrappers
Next ==
    \/ \E c \in PlainCtorInputs : Construct(c[1], c[2], c[3], c[4], c[5])
    \/ getSystemInfo
    \/ \E to \in {Str(<<"A","B","C">>)} : sendInstantInvitation(to, Undef, Undef, Undef)
    \/ \E ch \in {Str(<<"A","B","C">>)} : modifyChannel(ch)
    \/ Transport

Spec == Init /\ [][Next]_vars

\* the order in which requests in flight reach the server
NextOrder ==
    \/ \E c \in {TokenAF} \X {Undef} \X {Undef} \X {Undef} \X {Undef} :
          Construct(c[1], c[2], c[3], c[4], c[5])
    \/ getSystemInfo
    \/ \E to \in {Str(<<"A","B","C">>)} : sendInstantInvitation(to, Undef, Undef, Undef)
    \/ \E i \in 1..Len(requests) : Deliver(i)
    \/ Transport

SpecOrder == Init /\ [][NextOrder]_vars

\* the envelopes of the wrapped operations
NextWrappers ==
    \/ \E c \in {TokenAF} \X {Undef} \X {Undef} \X {Undef} \X {Undef} :
          Construct(c[1], c[2], c[3], c[4], c[5])
    \/ \E m \in {MUndef, M("getContacts")}, p \in {PUndef, P([filter |-> Str(<<>>)])} :
          sendRequest(m, p)
    \/ getSystemInfo
    \/ getWebSocketState
    \/ \E port \in {Num(20009)} : setWebSocketState(Bool(FALSE), port)
    \/ \E pk \in StringArgs, nick \in StringArgs : setContactNick(pk, nick)
    \/ \E to \in StringArgs, ch \in StringArgs :
          sendInstantInvitation(to, ch, Undef, Undef)
    \/ \E ch \in StringArgs : modifyChannel(ch)
    \/ \E nick \in {Str(<<"A","B","C">>)} :
          unsModifyRecordRequest(nick, Undef, Undef, Undef)
    \/ \E enabled \in {Undef, Bool(TRUE)} : setLowTrafficMode(enabled)
    \/ uploadFile(PathFile, Undef)
    \/ Transport

SpecWrappers == Init /\ [][NextWrappers]_vars

\* the two file helpers on every kind of path, with and without base64 data,
\* next to the other wrappers that do not end in `return this.sendRequest`
FilenameInputs == {Undef, PathFile, PathDir, PathNone}
Base64Inputs == {Undef, GivenBase64}

NextFiles ==
    \/ \E c \in {TokenAF} \X {Undef} \X {Undef} \X {Undef} \X {Undef} :
          Construct(c[1], c[2], c[3], c[4], c[5])
    \/ \E fn \in FilenameInputs, b64 \in Base64Inputs :
          sendChannelPicture(Str(<<"A","B","C">>), fn, b64)
    \/ \E fn \in FilenameInputs, b64 \in Base64Inputs : uploadFile(fn, b64)
    \/ \E ch \in {Str(<<"A","B","C">>)} : modifyChannel(ch)
    \/ \E to \in {Str(<<"A","B","C">>)} : sendInstantInvitation(to, Undef, Undef, Undef)
    \/ \E pk \in {Str(<<"A","B","C">>)} : setContactNick(pk, Undef)
    \/ Transport

SpecFiles == Init /\ [][NextFiles]_vars

\* optional parameters left out, and falsy values given for them
EnabledInputs == {Undef, Bool(FALSE), Bool(TRUE)}
AmountInputs == {Undef, Num(0), Num(5)}

NextDefaults ==
    \/ \E c \in {TokenAF} \X {Undef} \X {Undef} \X {Undef} \X {Undef} :
          Construct(c[1], c[2], c[3], c[4], c[5])
    \/ sendRequest(MUndef, PUndef)
    \/ \E filter \in StringArgs : getContacts(filter)
    \/ \E coder \in {Undef, Str(<<"H","E","X">>)}, format \in {Undef, Str(<<"J","P","G">>)} :
          getContactAvatar(Str(<<"A","B","C">>), coder, format)
    \/ \E enabled \in EnabledInputs : enableMining(enabled)
    \/ \E enabled \in EnabledInputs : enableInterest(enabled)
    \/ \E enabled \in EnabledInputs : enableHistoryMining(enabled)
    \/ \E enabled \in EnabledInputs :
          createProxyMapping(Undef, Undef, Str(<<"A","B","C">>), Undef, enabled)
    \/ \E amount \in AmountInputs :
          sendPayment(Undef, Str(<<"A","B","C">>), amount, Undef)

SpecDefaults == Init /\ [][NextDefaults]_vars

\* construction on every token
NextCtor ==
    \/ \E c \in WideCtorInputs : Construct(c[1], c[2], c[3], c[4], c[5])
    \/ getSystemInfo
    \/ Transport

SpecCtor == Init /\ [][NextCtor]_vars

\* the activation negotiation on every endpoint
NextNeg ==
    \/ \E c \in EndpointCtorInputs : Construct(c[1], c[2], c[3], c[4], c[5])
    \/ getWebSocketState
    \/ Transport

SpecNeg == Init /\ [][NextNeg]_vars

\* the subscription methods around the negotiation
NextNotify ==
    \/ \E c \in PlainCtorInputs \cup ({TokenAF} \X {Bool(FALSE)} \X {Undef} \X {Undef} \X {Undef}) :
          Construct(c[1], c[2], c[3], c[4], c[5])
    \/ Transport
    \/ \E e \in EventInputs, cb \in CallbackInputs : on(e, cb)
    \/ \E e \in EventInputs, cb \in CallbackInputs : once(e, cb)
    \/ \E e \in EventInputs, cb \in CallbackInputs : removeListener(e, cb)

SpecNotify == Init /\ [][NextNotify]_vars

\* the frames of a socket on the port the server reports active
NextFrames ==
    \/ \E c \in {TokenAF} \X {Bool(TRUE)} \X {Undef} \X {Undef} \X {Undef} :
          Construct(c[1], c[2], c[3], c[4], c[5])
    \/ \E i \in 1..Len(requests), b \in {Body(Num(ActivePort)), NoBody} :
          Reply(i, 200, b)
    \/ \E e \in EventInputs : on(e, "cb1")
    \/ \E e \in EventInputs : once(e, "cb1")
    \/ \E e \in EventInputs : removeListener(e, "cb1")
    \/ SocketOpen
    \/ SocketError
    \/ SocketClose
    \/ \E f \in FrameInputs : Receive(f)

SpecFrames == Init /\ [][NextFrames]_vars

\* the life of the socket after every outcome of the negotiation, with the
\* frames it receives and a subscriber
NextChannel ==
    \/ \E c \in EndpointCtorInputs : Construct(c[1], c[2], c[3], c[4], c[5])
    \/ Transport
    \/ SocketOpen
    \/ SocketError
    \/ SocketClose
    \/ \E f \in FrameInputs : Receive(f)
    \/ on("any", "cb1")

SpecChannel == Init /\ [][NextChannel]_vars

\* ------------------------------------------------------------------ claims
HexDigitsAnyCase ==
    {"0","1","2","3","4","5","6","7","8","9",
     "a","b","c","d","e","f","A","B","C","D","E","F"}

\* the token is missing, empty, or has a character outside [0-9a-fA-F]
InvalidToken(tok) ==
    \/ tok.t = "undef"
    \/ tok.s = <<>>
    \/ \E i \in 1..Len(tok.s) : tok.s[i] \notin HexDigitsAnyCase

\* C1: once the constructor has been called with a token that is missing,
\* empty or not hexadecimal, it has thrown "token is not valid", and no request
\* was posted and no socket created, whatever websocketenabled was.
C1_InvalidTokenFailsConstruction ==
    (pc # "new" /\ InvalidToken(args.token)) =>
        /\ pc = "threw"
        /\ thrown = TokenNotValid
        /\ requests = <<>>
        /\ wire = <<>>
        /\ serverLog = <<>>
        /\ sockets = <<>>

\* a non-hexadecimal token of full length was rejected although the
\* notification socket had been asked for
C1_Witness ==
    /\ pc = "threw"
    /\ args.websocketenabled = Bool(TRUE)
    /\ args.token.t = "str"
    /\ Len(args.token.s) = MaxTokenLen
    /\ \E i \in 1..Len(args.token.s) : args.token.s[i] = "g"

UpperHexPairs ==
    {<<"a","A">>, <<"b","B">>, <<"c","C">>, <<"d","D">>, <<"e","E">>, <<"f","F">>}

\* u is the upper-case form of the hexadecimal string w
IsUpperCaseOf(u, w) ==
    /\ Len(u) = Len(w)
    /\ \A i \in 1..Len(w) :
          IF \E pr \in UpperHexPairs : pr[1] = w[i]
          THEN <<w[i], u[i]>> \in UpperHexPairs
          ELSE u[i] = w[i]

\* C2: for a valid token, the token of every request envelope and of every
\* notification-socket url is the upper-case form of the constructor's token.
C2_TokenSentUpperCase ==
    pc = "ready" =>
        /\ \A i \in 1..Len(requests) :
              /\ requests[i].body.token.t = "str"
              /\ IsUpperCaseOf(requests[i].body.token.s, args.token.s)
        /\ \A k \in 1..Len(sockets) :
              IsUpperCaseOf(sockets[k].url.token, args.token.s)

\* a token with a lower-case letter went out in a caller's request and in the
\* url of the notification socket
C2_Witness ==
    /\ pc = "ready"
    /\ \E i \in 1..Len(args.token.s) : args.token.s[i] = "a"
    /\ \E i \in 1..Len(requests) : requests[i].origin = "caller"
    /\ sockets # <<>>

\* the transport has called back for request r
CalledBack(r) == r.state \in {"answered", "failed"}

\* C3: a request's promise is pending until the transport calls back; it is
\* then resolved with the received body iff there was no error and the status
\* was 200, and otherwise rejected with the transport error if there was one,
\* else with "statusCode is not 200"; a settled promise never changes again.
C3_ResolvesIffNoErrorAnd200 ==
    /\ [](\A i \in 1..Len(requests) :
            LET r == requests[i]
            IN /\ (r.promise = "pending") <=> ~CalledBack(r)
               /\ CalledBack(r) =>
                    /\ (r.promise = "resolved") <=>
                           (r.error_ = NoError /\ r.statusCode = 200)
                    /\ r.promise = "resolved" => r.data = r.received
                    /\ r.promise = "rejected" =>
                           r.reason = IF r.error_ = NoError
                                      THEN "statusCode is not 200" ELSE r.error_)
    /\ [][\A i \in 1..Len(requests) :
            requests[i].promise # "pending" =>
                /\ requests'[i].promise = requests[i].promise
                /\ requests'[i].reason = requests[i].reason
                /\ requests'[i].data = requests[i].data]_vars

\* one caller request was resolved with its body and another was rejected for
\* its status alone
C3_Witness ==
    /\ \E i \in CallerRequests :
          requests[i].promise = "resolved" /\ requests[i].data = Body(Bool(TRUE))
    /\ \E i \in CallerRequests :
          requests[i].promise = "rejected" /\ requests[i].statusCode = 500

\* the number of times id occurs in the sequence w
Occurrences(w, id) == Cardinality({k \in 1..Len(w) : w[k] = id})

\* C4: every sendRequest call has been posted exactly once, in every state,
\* also after the call has failed with a transport error or a non-200 status.
C4_OnePostPerCall ==
    /\ \A i \in 1..Len(requests) : Occurrences(wire, i) = 1
    /\ \A k \in 1..Len(wire) : wire[k] \in 1..Len(requests)

\* one request failed with a transport error, another with status 500
C4_Witness ==
    /\ \E i \in 1..Len(requests) : requests[i].reason = "ECONNREFUSED"
    /\ \E i \in 1..Len(requests) : requests[i].reason = NotOk

\* C5 as stated: the server receives the requests of one client in the order
\* in which the caller issued them.
C5_ReceivedInCallOrder ==
    \A j, k \in 1..Len(serverLog) : j < k => serverLog[j] < serverLog[k]

\* C5 as amended: the requests are handed to the transport in the order in
\* which the caller issued them, each within its own sendRequest call.
C5_PostedInCallOrder ==
    /\ Len(wire) = Len(requests)
    /\ \A k \in 1..Len(wire) : wire[k] = k

\* a later request reached the server while an earlier one was still on its way
C5_Witness ==
    \E a, b \in 1..Len(requests) :
        /\ a < b
        /\ requests[a].state = "sent"
        /\ requests[b].state = "delivered"
        /\ wire = <<a, b>>

\* C6 as stated: no wrapped operation throws, and a caller's request that the
\* server answered with status 500 is a promise the caller holds, rejected
\* with "statusCode is not 200".
C6_Status500RejectsCallersPromise ==
    /\ lastCall.kind # "throw"
    /\ \A i \in CallerRequests :
          (requests[i].state = "answered" /\ requests[i].statusCode = 500) =>
              /\ requests[i].returned
              /\ requests[i].promise = "rejected"
              /\ requests[i].reason = NotOk

\* request r asks the server to enable the notification socket
IsActivation(r) ==
    /\ r.body.method = "setWebSocketState"
    /\ DOMAIN r.body.params = {"enabled", "port"}
    /\ r.body.params["enabled"] = Bool(TRUE)

\* C7: a client constructed with websocketenabled false or omitted posts
\* nothing in its constructor, never sends a request of its own, never creates
\* a socket, and its webSocketUnavailable stays true.
C7_NoNegotiationUnlessRequested ==
    /\ []((pc = "ready" /\ ~Truthy(args.websocketenabled)) =>
             /\ \A i \in 1..Len(requests) : requests[i].origin = "caller"
             /\ \A i \in 1..Len(requests) : ~IsActivation(requests[i])
             /\ sockets = <<>>
             /\ webSocketUnavailable = Bool(TRUE))
    /\ [][(pc = "new" /\ ~Truthy(args'.websocketenabled)) =>
             (requests' = requests /\ wire' = wire)]_vars

\* without the flag, the caller's own getWebSocketState was answered with an
\* active port and still nothing was opened
C7_Witness ==
    /\ pc = "ready"
    /\ args.websocketenabled = Bool(FALSE)
    /\ \E i \in 1..Len(requests) :
          /\ requests[i].body.method = "getWebSocketState"
          /\ requests[i].promise = "resolved"
          /\ requests[i].data = Body(Num(ActivePort))

\* the state query of the constructor reported port 0, or failed
QueryFellBack(r) ==
    /\ r.origin = "query"
    /\ \/ r.promise = "rejected"
       \/ r.promise = "resolved" /\ r.data.result = Num(0)

\* the port the activation is to ask for: the caller's, else 20001
IsFallbackPort(port) ==
    IF args.wsPort # Undef
    THEN port = args.wsPort
    ELSE port \in {Str(<<"2","0","0","0","1">>), Num(20001)}

\* C8: once the state query has reported port 0 or has failed, a
\* setWebSocketState request with enabled = true and the caller's port (20001
\* if none was given) has been sent, and a socket exists only if that request
\* has succeeded.
C8_FallbackActivatesBeforeSocket ==
    \A i \in 1..Len(requests) :
        QueryFellBack(requests[i]) =>
            \E a \in (i + 1)..Len(requests) :
                /\ IsActivation(requests[a])
                /\ IsFallbackPort(requests[a].body.params["port"])
                /\ sockets # <<>> => requests[a].promise = "resolved"

\* the query failed, the activation on the caller's numeric port succeeded and
\* the socket was created
C8_Witness ==
    /\ args.wsPort = Num(20007)
    /\ \E i \in 1..Len(requests) :
          requests[i].origin = "query" /\ requests[i].promise = "rejected"
    /\ \E a \in 1..Len(requests) :
          IsActivation(requests[a]) /\ requests[a].promise = "resolved"
    /\ Len(sockets) = 1

\* C9: once the state query has reported a nonzero port, one socket has been
\* created against that port, not the caller's, and no activation request is
\* ever sent.
C9_ActivePortAdopted ==
    \A i \in 1..Len(requests) :
        (/\ requests[i].origin = "query"
         /\ requests[i].promise = "resolved"
         /\ requests[i].data.result = Num(20003)) =>
            /\ Len(sockets) = 1
            /\ sockets[1].url.port = <<"2","0","0","0","3">>
            /\ \A a \in 1..Len(requests) : ~IsActivation(requests[a])

\* the server reported its active port to a client that had asked for another
C9_Witness ==
    /\ args.wsPort = Str(<<"2","0","0","0","5">>)
    /\ \E i \in 1..Len(requests) :
          /\ requests[i].origin = "query"
          /\ requests[i].data.result = Num(20003)
    /\ sockets # <<>>

\* the notification socket was never asked for, or its activation failed
Degraded ==
    /\ pc = "ready"
    /\ \/ ~Truthy(args.websocketenabled)
       \/ \E i \in 1..Len(requests) :
             IsActivation(requests[i]) /\ requests[i].promise = "rejected"

\* C10: in every state in which the notification socket was never asked for
\* or its activation has failed, no callback is registered, no subscription
\* call has thrown, no socket exists and webSocketUnavailable is true.
C10_DegradedModeIsSilent ==
    Degraded =>
        /\ \A e \in DOMAIN listeners : listeners[e] = <<>>
        /\ lastCall.kind # "throw"
        /\ sockets = <<>>
        /\ webSocketUnavailable = Bool(TRUE)

\* on, once or removeListener was called after the activation had failed
C10_Witness ==
    /\ \E i \in 1..Len(requests) :
          IsActivation(requests[i]) /\ requests[i].promise = "rejected"
    /\ lastCall.op \in {"on", "once", "removeListener"}
    /\ lastCall.kind = "undefined"


\* C11 as stated: no failure of the activation negotiation escapes unhandled
\* (neither one raised while handling a successful reply nor the socket failing
\* to open), and only an invalid token makes the constructor throw.
C11_NegotiationFailuresCaught ==
    /\ neg # "unhandled"
    /\ "socket error" \notin uncaught
    /\ pc = "threw" => thrown = TokenNotValid

\* a frame that parses and has a type
WellFormed(frame) == frame.json /\ frame.hasType

Outgoing == <<"o","u","t","g","o","i","n","g">>
Incoming == <<"i","n","c","o","m","i","n","g">>
Message == <<"m","e","s","s","a","g","e">>

\* the categories a frame of type t is to notify
Expected(t) ==
    {"any"}
    \cup {e \in EventNames : NameChars(e) = t}
    \cup (IF MatchesIgnoreCase(t, Outgoing) THEN {"outgoingMessage"} ELSE {})
    \cup (IF MatchesIgnoreCase(t, Incoming) THEN {"incomingMessage"} ELSE {})
    \cup (IF MatchesIgnoreCase(t, Message) THEN {"message"} ELSE {})

\* callback cb was called for category e while the latest frame was handled
Called(e, cb) ==
    \E k \in 1..Len(lastDispatch) :
        lastDispatch[k].event = e /\ lastDispatch[k].cb = cb

\* C12 as stated: after a well-formed frame of type t, the callbacks called are
\* callbacks of the categories t notifies, and every callback still subscribed
\* to one of these categories was called.
C12_NotifiedCategories ==
    WellFormed(lastFrame) =>
        /\ \A k \in 1..Len(lastDispatch) :
              lastDispatch[k].event \in Expected(lastFrame.type)
        /\ \A e \in Expected(lastFrame.type) :
              \A j \in 1..Len(listeners[e]) : Called(e, listeners[e][j].cb)

\* the category named by type t, "" when t names none
TypeEvent(t) ==
    IF \E e \in EventNames : NameChars(e) = t
    THEN CHOOSE e \in EventNames : NameChars(e) = t
    ELSE ""

\* the calls log[k..] can be assigned to the phases p.. of `phases` in order
RECURSIVE InPhaseOrder(_, _, _, _)
InPhaseOrder(log, k, p, phases) ==
    IF k > Len(log) THEN TRUE
    ELSE IF p > Len(phases) THEN FALSE
    ELSE IF phases[p] = log[k].event THEN InPhaseOrder(log, k + 1, p, phases)
    ELSE InPhaseOrder(log, k, p + 1, phases)

\* C13 as stated: the calls of one frame come in the order any, the category
\* named by the type, outgoingMessage, incomingMessage, message.
C13_AnyThenType ==
    WellFormed(lastFrame) =>
        InPhaseOrder(lastDispatch, 1, 1,
                     <<"any", TypeEvent(lastFrame.type), "outgoingMessage",
                       "incomingMessage", "message">>)

\* C13 amended: the calls of one frame come in the order the category named by
\* the type, any, outgoingMessage, incomingMessage, message.
C13_TypeThenAny ==
    WellFormed(lastFrame) =>
        InPhaseOrder(lastDispatch, 1, 1,
                     <<TypeEvent(lastFrame.type), "any", "outgoingMessage",
                       "incomingMessage", "message">>)

\* a frame called a subscriber of its own category and then one of any
C13_Witness ==
    /\ WellFormed(lastFrame)
    /\ Len(lastDispatch) >= 2
    /\ lastDispatch[1].event = TypeEvent(lastFrame.type)
    /\ lastDispatch[1].event # "any"
    /\ lastDispatch[2].event = "any"

\* how many registrations of callback cb the list ls holds
Registrations(ls, cb) == Cardinality({j \in 1..Len(ls) : ls[j].cb = cb})

\* how many times the latest frame called cb for category e
Calls(log, e, cb) ==
    Cardinality({k \in 1..Len(log) : log[k].event = e /\ log[k].cb = cb})

\* C14 as stated: on an open channel on("incomingMessage", cb) subscribes cb,
\* and a frame whose type contains "incoming" calls every callback subscribed
\* to incomingMessage exactly once per subscription.
C14_SyntheticCategoryOnce ==
    [][/\ \A cb \in {"cb1"} :
             (SocketIs("open") /\ on("incomingMessage", cb)) =>
                 Registrations(listeners'["incomingMessage"], cb)
                     = Registrations(listeners["incomingMessage"], cb) + 1
       /\ \A f \in FrameInputs :
             (Receive(f) /\ WellFormed(f) /\ MatchesIgnoreCase(f.type, Incoming)) =>
                 \A cb \in {"cb1"} :
                     Calls(lastDispatch', "incomingMessage", cb)
                         = Registrations(listeners["incomingMessage"], cb)]_vars

\* C15 as stated: a frame that does not parse calls no subscriber, lets no
\* exception leave the handler, leaves the socket open and the client able to
\* handle the frames after it.
C15_MalformedFrameDropped ==
    [][\A f \in FrameInputs :
          (Receive(f) /\ ~f.json) =>
              /\ lastDispatch' = <<>>
              /\ listeners' = listeners
              /\ uncaught' = uncaught
              /\ pc' = "ready"
              /\ SocketIs("open")']_vars

\* C16 as stated: every callback called for a frame is given the payload of
\* that frame as its argument.
C16_PayloadPassedThrough ==
    WellFormed(lastFrame) =>
        \A k \in 1..Len(lastDispatch) :
            lastDispatch[k].args = <<lastFrame.payload>>

\* C17 as stated: once the socket has closed no callback is called any more,
\* and the close itself reaches the subscribers: a callback is called for it or
\* the client marks the channel unavailable.
C17_ClosureSurfaced ==
    [][/\ SocketIs("closed") =>
             (lastDispatch' = lastDispatch \/ lastDispatch' = <<>>)
       /\ SocketClose =>
             \/ Truthy(webSocketUnavailable')
             \/ lastDispatch' # lastDispatch
             \/ uncaught' # uncaught]_vars

\* where the notification channel of the instance stands
ChannelState == IF sockets = <<>> THEN "unopened" ELSE sockets[Len(sockets)].state

ChannelRank(state) ==
    CASE state = "unopened" -> 0
      [] state = "connecting" -> 1
      [] state = "open" -> 2
      [] state = "closed" -> 3

\* C18: the channel never moves backwards along unopened, connecting, open,
\* closed and never leaves closed (a socket that fails to connect goes from
\* connecting to closed); the instance creates at most one socket, and none
\* once a socket has closed.
C18_OneSocketNoReconnect ==
    [][/\ ChannelRank(ChannelState') >= ChannelRank(ChannelState)
       /\ ChannelState = "unopened" => ChannelState' \in {"unopened", "connecting"}
       /\ ChannelState = "closed" => sockets' = sockets
       /\ Len(sockets') <= 1
       /\ Len(sockets') >= Len(sockets)]_vars

\* the one socket of the instance was open and has closed, the client goes on
C18_Witness ==
    /\ pc = "ready"
    /\ Len(sockets) = 1
    /\ SocketIs("closed")
    /\ "socket error" \notin uncaught

\* C19 as stated: whatever error the notification path has had (a frame that
\* does not parse, a frame without type, a socket error), the client is still
\* running, so that a later sendRequest issues its POST.
C19_NotificationErrorsKeepRequests ==
    uncaught # {} => pc = "ready"

Durable(cb) == [cb |-> cb, once |-> FALSE]
OneShot(cb) == [cb |-> cb, once |-> TRUE]

\* C20 as stated, for every category e of the inputs, on an open channel:
\* on(e, cb) and once(e, cb) subscribe cb, removeListener(e, cb) takes one
\* subscription of cb away; a well-formed frame that notifies e calls every
\* callback subscribed to e, after which the on-subscriptions remain and the
\* once-subscriptions are gone; a well-formed frame that does not notify e
\* calls none of them and leaves them subscribed.
C20_SubscriptionLifecycle ==
    [][\A e \in EventInputs, cb \in {"cb1"} :
          /\ (SocketIs("open") /\ on(e, cb)) =>
                 listeners'[e] = Append(listeners[e], Durable(cb))
          /\ (SocketIs("open") /\ once(e, cb)) =>
                 listeners'[e] = Append(listeners[e], OneShot(cb))
          /\ (SocketIs("open") /\ removeListener(e, cb)
                 /\ Registrations(listeners[e], cb) > 0) =>
                 Registrations(listeners'[e], cb)
                     = Registrations(listeners[e], cb) - 1
          /\ \A f \in FrameInputs :
                (Receive(f) /\ WellFormed(f)) =>
                    IF e \in Expected(f.type)
                    THEN /\ Registrations(listeners[e], cb) > 0 =>
                               Calls(lastDispatch', e, cb) >= 1
                         /\ listeners'[e] = SelectSeq(listeners[e], LAMBDA l : ~l.once)
                    ELSE /\ Calls(lastDispatch', e, cb) = 0
                         /\ listeners'[e] = listeners[e]]_vars

ABC == Str(<<"A","B","C">>)

\* the three failures a file helper is to report: a filename without data that
\* names a directory or names nothing, or neither filename nor data
FileFailure(fn, b64) ==
    IF ~Truthy(b64)
    THEN IF Truthy(fn) THEN ~(existsSync(fn) /\ isFile(fn)) ELSE TRUE
    ELSE FALSE

\* C21 as stated: a call of a wrapped operation makes exactly one sendRequest
\* call: the file helpers whenever they are not given one of the three
\* failures (in particular with base64 data), modifyChannel, and the others.
C21_OneRequestPerOperation ==
    [][/\ \A fn \in FilenameInputs, b64 \in Base64Inputs :
             /\ (sendChannelPicture(ABC, fn, b64) /\ ~FileFailure(fn, b64)) =>
                    Len(requests') = Len(requests) + 1
             /\ (uploadFile(fn, b64) /\ ~FileFailure(fn, b64)) =>
                    Len(requests') = Len(requests) + 1
       /\ modifyChannel(ABC) => Len(requests') = Len(requests) + 1
       /\ sendInstantInvitation(ABC, Undef, Undef, Undef) =>
             Len(requests') = Len(requests) + 1
       /\ setContactNick(ABC, Undef) => Len(requests') = Len(requests) + 1]_vars

\* the parameter names the documentation of an operation gives for its request
DocumentedParams(op) ==
    CASE op = "setContactNick" -> {"contactPublicKey", "newNick"}
      [] op = "setLowTrafficMode" -> {"enabled"}
      [] op = "unsModifyRecordRequest" -> {"nick", "valid", "isPrimary", "channelId"}
      [] op = "uploadFile" -> {"base64_image", "filename_image"}
      [] op = "sendInstantInvitation" -> {"to", "channelid", "description", "comments"}
      [] op = "getSystemInfo" -> {}
      [] op = "getWebSocketState" -> {}
      [] op = "setWebSocketState" -> {"enabled", "port"}
      [] OTHER -> {}

\* C22 as stated: no wrapped operation throws, and the request of a wrapped
\* operation names the remote method of the same name and has the documented
\* parameter names.
C22_EnvelopeAsDocumented ==
    /\ lastCall.kind # "throw"
    /\ \A i \in CallerRequests :
          requests[i].op # "sendRequest" =>
              /\ requests[i].body.method = requests[i].op
              /\ DOMAIN requests[i].body.params = DocumentedParams(requests[i].op)

\* C23 as stated: what a wrapped operation gives back to its caller is always
\* a promise, and the promise of every request it made is the one the caller
\* holds.
C23_EveryPathReturnsPromise ==
    /\ lastCall.kind \in {"none", "promise"}
    /\ \A i \in CallerRequests : requests[i].returned

\* the failure a file helper is to report for its arguments, "" when the
\* request is to be sent
ExpectedFileError(fn, b64) ==
    IF Truthy(b64) THEN ""
    ELSE IF ~Truthy(fn) THEN "filename parameter is required"
    ELSE IF ~existsSync(fn) THEN "file does not exist"
    ELSE IF ~isFile(fn) THEN "path is a directory"
    ELSE ""

\* the call just made reported `error`, or made a request when error is ""
FileOutcome(error) ==
    IF error = ""
    THEN /\ Len(requests') = Len(requests) + 1
         /\ lastCall'.kind = "promise"
    ELSE /\ requests' = requests
         /\ lastCall'.kind = "object"
         /\ lastCall'.error = error

\* C24 as stated: sendChannelPicture and uploadFile report "path is a
\* directory", "file does not exist" and the missing-filename error exactly in
\* the three cases without data, and send the request in every other case.
C24_FileHelperFailures ==
    [][\A fn \in FilenameInputs, b64 \in Base64Inputs :
          /\ sendChannelPicture(ABC, fn, b64) =>
                 FileOutcome(ExpectedFileError(fn, b64))
          /\ uploadFile(fn, b64) => FileOutcome(ExpectedFileError(fn, b64))]_vars

\* the request the call just made
NewestRequest == requests'[Len(requests')]

C26_EndpointFixedAtConstruction ==
    [][pc = "ready" =>
          <<token, apiHost, apiPort, wsPort>>' = <<token, apiHost, apiPort, wsPort>>]_vars

\* C26 amended: once the constructor has returned, no step changes the token,
\* the host or the request port; the notification port is assigned by the
\* negotiation after that, and no step changes it once the socket exists.
C26_EndpointFixedPortAtSocket ==
    [][pc = "ready" =>
          /\ <<token, apiHost, apiPort>>' = <<token, apiHost, apiPort>>
          /\ sockets # <<>> => wsPort' = wsPort]_vars

\* the negotiation gave the socket a port other than the constructor's
C26_Witness ==
    /\ pc = "ready"
    /\ SocketIs("open")
    /\ wsPort # args.wsPort
    /\ lastFrame # NoFrame

\* C27 as stated: on a client constructed with websocketenabled true, on(e, cb)
\* for a category e of listenedEvents subscribes cb whenever it is called
\* after the constructor has returned, also before the negotiation has ended.
C27_SubscribeBeforeChannelOpens ==
    [][\A e \in EventInputs \cap ListenedEvents :
          (Truthy(websocketenabled) /\ neg \in {"query", "activate", "socket"}
              /\ on(e, "cb1")) =>
              listeners'[e] = Append(listeners[e], Durable("cb1"))]_vars

\* C28 as stated: a frame calls a callback that is subscribed once, with on(),
\* to a category at most once.
C28_AtMostOncePerFrame ==
    [][\A f \in FrameInputs, e \in EventInputs :
          (Receive(f) /\ listeners[e] = <<Durable("cb1")>>) =>
              Calls(lastDispatch', e, "cb1") <= 1]_vars

\* C29 as stated: a frame that is JSON but has no type calls no callback and
\* lets no exception leave the handler.
C29_TypelessFrameDropped ==
    [][\A f \in FrameInputs :
          (Receive(f) /\ f.json /\ ~f.hasType) =>
              /\ lastDispatch' = <<>>
              /\ uncaught' = uncaught
              /\ pc' = "ready"]_vars

\* C30 as stated: an explicit false for the enabled parameter of enableMining,
\* enableInterest, enableHistoryMining and createProxyMapping is sent as
\* false, and an explicit amount 0 of sendPayment is sent as 0.
C30_ExplicitValuesSent ==
    [][/\ enableMining(Bool(FALSE)) =>
             NewestRequest.body.params.enable = Bool(FALSE)
       /\ enableInterest(Bool(FALSE)) =>
             NewestRequest.body.params.enable = Bool(FALSE)
       /\ enableHistoryMining(Bool(FALSE)) =>
             NewestRequest.body.params.enable = Bool(FALSE)
       /\ createProxyMapping(Undef, Undef, ABC, Undef, Bool(FALSE)) =>
             NewestRequest.body.params.enabled = Bool(FALSE)
       /\ sendPayment(Undef, ABC, Num(0), Undef) =>
             NewestRequest.body.params.amount = Num(0)]_vars

====
